---------------------------- MODULE Spec2Model ----------------------------
(***************************************************************************)
(* State-machine model of lib/packagers/index.js of serverless-webpack:    *)
(*   - the packager factory (exports.get),                                 *)
(*   - the artifact distributor (copyExistingArtifacts, setArtifactPath),  *)
(*   - the archive pipeline (packageModules, zip, serverlessZip).          *)
(* The specifications share the variables; each one drives one part, or a  *)
(* full run, and leaves the variables of the other parts as constructed.   *)
(***************************************************************************)
EXTENDS Integers, Sequences, FiniteSets, TLC

VARIABLES
  hasLog,        \* this.log is present (modern logger) or absent (legacy cli.log)
  errorLog,      \* messages given to this.log.error
  cliLog,        \* messages given to this.serverless.cli.log
  packagerId,    \* argument of the last exports.get call
  getOutcome,    \* how exports.get ended: none / return / throw
  individually,  \* serverless.service.package.individually
  provider,      \* serverless.service.provider.name
  serviceName,   \* serverless.service.getServiceObject().name
  optFunction,   \* this.options.function (the -f option) or Undefined
  version,       \* this.serverless.getVersion()
  funcs,         \* the function records of the service, by function name
  serviceArtifact, \* serverless.service.package.artifact
  fsFiles,       \* paths of the archive files that exist on disk
  fsDirs,        \* archive parent directories that exist on disk
  functionNames, \* copyExistingArtifacts: the local functionNames
  distPc,        \* copyExistingArtifacts: position in the function
  distIdx,       \* copyExistingArtifacts: index of the running _.forEach
  atEntry,       \* history: funcs and serviceArtifact when copyExistingArtifacts began
  skipCompile,   \* this.skipCompile
  numStats,      \* this.compileStats.stats.length
  entryFunctions, \* this.entryFunctions
  excludeRegex,  \* this.configuration.excludeRegex
  dirFiles,      \* per unit: the files on disk under compileStats.outputPath
  files,         \* per unit: zip's local list files
  unitPc,        \* per unit: position of the map callback (zip, serverlessZip)
  archive,       \* per unit: state of the archiver instance
  stream,        \* per unit: state of the fs write stream
  closeListener, \* per unit: stream.on('close', resolve) is registered
  closeSeen,     \* per unit: the registered close listener has run
  crashed,       \* an uncaught exception has ended the process
  pmPc,          \* packageModules: position in the function
  mapIdx,        \* packageModules: index of the running stats.map callback
  initial,       \* history: disk contents when packageModules began
  passes         \* history: the outcome of each enumerate-and-filter pass of zip

factoryVars == <<packagerId, getOutcome>>
logVars == <<hasLog, errorLog, cliLog>>
hostVars == <<individually, provider, serviceName, optFunction, version>>
distVars == <<funcs, serviceArtifact, functionNames, distPc, distIdx, atEntry>>
fsVars == <<fsFiles, fsDirs>>
pkgVars == <<skipCompile, numStats, entryFunctions, excludeRegex, dirFiles, files,
             unitPc, archive, stream, closeListener, closeSeen, crashed, pmPc,
             mapIdx, initial, passes>>
vars == <<hasLog, errorLog, cliLog, packagerId, getOutcome, individually,
          provider, serviceName, optFunction, version, funcs, serviceArtifact,
          fsFiles, fsDirs, functionNames, distPc, distIdx, atEntry, skipCompile,
          numStats, entryFunctions, excludeRegex, dirFiles, files, unitPc,
          archive, stream, closeListener, closeSeen, crashed, pmPc, mapIdx,
          initial, passes>>

Undefined == "undefined"

(***************************************************************************)
(* Packager factory.  A string is a sequence of tokens; the token "." is   *)
(* the one character lodash's path syntax gives a meaning to.              *)
(***************************************************************************)
MaxIdLen == 3
Tokens == {"npm", "yarn", "NPM", "install", "."}
PackagerIds == UNION {[1..n -> Tokens] : n \in 0..MaxIdLen}

\* The static members every packager class owns (the interface comment).
PackagerInterface ==
  {"lockfileName", "copyPackageSectionNames", "mustCopyModules",
   "getPackagerVersion", "getProdDependencies", "rebaseLockfile",
   "install", "prune", "runScripts"}

npm == "require('./npm')"
yarn == "require('./yarn')"

registeredPackagers ==
  [k \in {<<"npm">>, <<"yarn">>} |-> IF k = <<"npm">> THEN npm ELSE yarn]

\* Own string keys of the object reached from registeredPackagers by the
\* property path obj: the registry itself, a packager class, or a member.
OwnKeys(obj) ==
  IF Len(obj) = 0 THEN DOMAIN registeredPackagers
  ELSE IF Len(obj) = 1 /\ obj[1] \in DOMAIN registeredPackagers
       THEN {<<m>> : m \in PackagerInterface}
       ELSE {}

HasDot(s) == \E i \in 1..Len(s) : s[i] = "."

\* lodash stringToPath: split at every ".", empty segments kept.
RECURSIVE stringToPath(_)
stringToPath(s) ==
  IF ~HasDot(s) THEN <<s>>
  ELSE LET i == CHOOSE k \in 1..Len(s) :
                  s[k] = "." /\ \A j \in 1..(k - 1) : s[j] # "."
       IN <<SubSeq(s, 1, i - 1)>> \o stringToPath(SubSeq(s, i + 1, Len(s)))

\* lodash isKey / castPath: a string without path syntax, or one that is a
\* property of the object as it stands, is a single key.
castPath(s) ==
  IF ~HasDot(s) \/ s \in OwnKeys(<<>>) THEN <<s>> ELSE stringToPath(s)

\* lodash hasPath with baseHas: every key of the path is an own property of
\* the object reached so far.
RECURSIVE hasPath(_, _)
hasPath(obj, path) ==
  IF path = <<>> THEN TRUE
  ELSE /\ Head(path) \in OwnKeys(obj)
       /\ hasPath(Append(obj, Head(path)), Tail(path))

\* _.has(registeredPackagers, packagerId)
Has(id) == LET path == castPath(id) IN Len(path) > 0 /\ hasPath(<<>>, path)

\* registeredPackagers[packagerId]
Lookup(id) ==
  IF id \in DOMAIN registeredPackagers THEN registeredPackagers[id] ELSE Undefined

NotFoundMessage(id) == <<"Could not find packager '">> \o id \o <<"'">>

NoOutcome == [kind |-> "none", value |-> Undefined, message |-> <<>>]

\* exports.get(packagerId)
Get(id) ==
  /\ getOutcome.kind = "none"
  /\ packagerId' = id
  /\ IF ~Has(id)
     THEN /\ IF hasLog
             THEN /\ errorLog' = Append(errorLog,
                                   <<"Could not find packager \"">> \o id \o <<"\"">>)
                  /\ UNCHANGED cliLog
             ELSE /\ cliLog' = Append(cliLog, <<"ERROR: ">> \o NotFoundMessage(id))
                  /\ UNCHANGED errorLog
          /\ getOutcome' = [kind |-> "throw", value |-> Undefined,
                            message |-> NotFoundMessage(id)]
     ELSE /\ getOutcome' = [kind |-> "return", value |-> Lookup(id), message |-> <<>>]
          /\ UNCHANGED <<errorLog, cliLog>>
  /\ UNCHANGED <<hasLog, hostVars, distVars, fsVars, pkgVars>>

(***************************************************************************)
(* Artifact distributor.  Paths are built from plain names, for which      *)
(* path.join is the concatenation with one separator.                      *)
(***************************************************************************)
NumFunctions == 2
FuncName(i) == "f" \o ToString(i)
AllFunctions == {FuncName(i) : i \in 1..NumFunctions}

\* getAllNodeFunctions (./utils): the functions of the service, in order.
getAllNodeFunctions == [i \in 1..NumFunctions |-> FuncName(i)]

\* isProviderGoogle (./utils)
isProviderGoogle == provider = "google"

webpackOutputPath == ".webpack"

PathJoin(dir, base) == [dir |-> dir, base |-> base]
PathString(p) == p.dir \o "/" \o p.base

\* getArtifactLocations(name)
getArtifactLocations(name) ==
  LET archiveName == name \o ".zip"
  IN [webpackArtifact |-> PathJoin(webpackOutputPath, archiveName),
      serverlessArtifact |-> PathJoin(".serverless", archiveName)]

\* A host version: major.minor.patch, pre for a prerelease tag.
Ver(major, minor, patch, pre) ==
  [major |-> major, minor |-> minor, patch |-> patch, pre |-> pre]

ArtifactPathVersion == Ver(1, 18, 0, FALSE)

SemverLte(a, b) ==
  \/ a.major < b.major
  \/ a.major = b.major /\ a.minor < b.minor
  \/ a.major = b.major /\ a.minor = b.minor /\ a.patch <= b.patch

\* semver.lt(a, b)
SemverLt(a, b) ==
  \/ a.major < b.major
  \/ a.major = b.major /\ a.minor < b.minor
  \/ a.major = b.major /\ a.minor = b.minor /\ a.patch < b.patch
  \/ a.major = b.major /\ a.minor = b.minor /\ a.patch = b.patch
       /\ a.pre /\ ~b.pre

\* _.assign({}, base, ext): the fields of ext over those of base.
AssignDropBase(base, ext) == ext

Assign(base, ext) == ext @@ base

\* setArtifactPath(funcName, func, artifactPath): the function record after
\* the call.
setArtifactPath(func, artifactPath) ==
  IF SemverLt(version, ArtifactPathVersion)
  THEN [func EXCEPT !.artifact = artifactPath,
                    !.package = Assign(func.package, [disable |-> "true"])]
  ELSE [func EXCEPT !.package = [artifact |-> artifactPath]]

\* the notice setArtifactPath gives on the legacy logger
setArtifactPathNotice(funcName) ==
  IF SemverLt(version, ArtifactPathVersion) /\ ~hasLog
  THEN <<funcName \o " is packaged by the webpack plugin. Ignore messages from SLS.">>
  ELSE <<>>

\* copyArtifactByName(artifactName): the file system after the call, and
\* whether fs.copyFileSync threw (the build-stage artifact is missing).
copyArtifactByNameSilent(artifactName) ==
  LET loc == getArtifactLocations(artifactName)
      src == PathString(loc.webpackArtifact)
      dst == PathString(loc.serverlessArtifact)
      present == src \in DOMAIN fsFiles
  IN [dirs |-> fsDirs \cup {loc.serverlessArtifact.dir},
      files |-> IF present THEN (dst :> fsFiles[src]) @@ fsFiles ELSE fsFiles,
      threw |-> FALSE]

copyArtifactByName(artifactName) ==
  LET loc == getArtifactLocations(artifactName)
      src == PathString(loc.webpackArtifact)
      dst == PathString(loc.serverlessArtifact)
      present == src \in DOMAIN fsFiles
  IN [dirs |-> fsDirs \cup {loc.serverlessArtifact.dir},
      files |-> IF present THEN (dst :> fsFiles[src]) @@ fsFiles ELSE fsFiles,
      threw |-> ~present]

\* line 233: the functions one call processes (all, or the one given by -f)
selectedFunctionNamesAll == getAllNodeFunctions

selectedFunctionNames ==
  IF optFunction # Undefined THEN <<optFunction>> ELSE getAllNodeFunctions

\* line 253: the archive a function is given
archiveNameOfSwapped(funcName) == IF individually THEN serviceName ELSE funcName

archiveNameOf(funcName) == IF individually THEN funcName ELSE serviceName

\* line 261: the service-level artifact is wanted
needsServiceArtifactAnyMode == isProviderGoogle

needsServiceArtifact == ~individually /\ isProviderGoogle

\* copyExistingArtifacts, lines 225-236: logging and the locals
CopyExistingStartNoCopyPass ==
  /\ distPc = "idle"
  /\ cliLog' = IF hasLog THEN cliLog ELSE Append(cliLog, "Copying existing artifacts...")
  /\ functionNames' = selectedFunctionNames
  /\ distPc' = "assign"
  /\ distIdx' = 1
  /\ UNCHANGED <<hasLog, errorLog, factoryVars, hostVars, funcs, serviceArtifact,
                 atEntry, fsVars, pkgVars>>

CopyExistingStart ==
  /\ distPc = "idle"
  /\ cliLog' = IF hasLog THEN cliLog ELSE Append(cliLog, "Copying existing artifacts...")
  /\ functionNames' = selectedFunctionNames
  /\ distPc' = "copy"
  /\ distIdx' = 1
  /\ UNCHANGED <<hasLog, errorLog, factoryVars, hostVars, funcs, serviceArtifact,
                 atEntry, fsVars, pkgVars>>

\* lines 238-244: one copy of the copy pass (a throw ends the call)
CopyExistingCopy ==
  /\ distPc = "copy"
  /\ IF individually
     THEN IF distIdx > Len(functionNames)
          THEN /\ distPc' = "assign"
               /\ distIdx' = 1
               /\ UNCHANGED fsVars
          ELSE LET r == copyArtifactByName(functionNames[distIdx])
               IN /\ fsFiles' = r.files
                  /\ fsDirs' = r.dirs
                  /\ distPc' = IF r.threw THEN "failed" ELSE "copy"
                  /\ distIdx' = IF r.threw THEN distIdx ELSE distIdx + 1
     ELSE LET r == copyArtifactByName(serviceName)
          IN /\ fsFiles' = r.files
             /\ fsDirs' = r.dirs
             /\ distPc' = IF r.threw THEN "failed" ELSE "assign"
             /\ distIdx' = 1
  /\ UNCHANGED <<logVars, factoryVars, hostVars, funcs, serviceArtifact,
                 functionNames, atEntry, pkgVars>>

\* lines 246-257: one iteration of the assignment pass
CopyExistingAssign ==
  /\ distPc = "assign"
  /\ IF distIdx > Len(functionNames)
     THEN /\ distPc' = "service"
          /\ UNCHANGED <<funcs, cliLog, distIdx>>
     ELSE LET funcName == functionNames[distIdx]
              archiveName == archiveNameOf(funcName)
              loc == getArtifactLocations(archiveName)
          IN /\ funcs' = [funcs EXCEPT ![funcName] =
                            setArtifactPath(@, PathString(loc.serverlessArtifact))]
             /\ cliLog' = cliLog \o setArtifactPathNotice(funcName)
             /\ distIdx' = distIdx + 1
             /\ UNCHANGED distPc
  /\ UNCHANGED <<hasLog, errorLog, factoryVars, hostVars, serviceArtifact,
                 functionNames, atEntry, fsVars, pkgVars>>

\* lines 259-270: the service-level artifact of the google provider
CopyExistingService ==
  /\ distPc = "service"
  /\ IF needsServiceArtifact
     THEN serviceArtifact' =
            PathString(getArtifactLocations(serviceName).serverlessArtifact)
     ELSE UNCHANGED serviceArtifact
  /\ distPc' = "done"
  /\ UNCHANGED <<logVars, factoryVars, hostVars, funcs, functionNames, distIdx,
                 atEntry, fsVars, pkgVars>>

(***************************************************************************)
(* Archive pipeline: packageModules, zip, serverlessZip.  A unit is one    *)
(* compile result with its own output directory.  The synchronous head of  *)
(* a map callback (up to its first await of archive.finalize()) is one     *)
(* step; the events of the archiver and of the write stream are steps that *)
(* interleave once packageModules awaits Promise.all.                      *)
(*                                                                         *)
(* The paths of a directory are distinct regular files, an exclusion       *)
(* pattern is the set of paths it matches, and an archive is the set of    *)
(* its file entries.  The source fixes the order of finalize(), listener   *)
(* registration and return, not the moment of the stream's close event,    *)
(* which may come before or after the listener is registered.  The logging *)
(* of the pipeline is verbose-only and changes no state.                   *)
(***************************************************************************)
NumUnits == 2
MaxFiles == 3
Units == 1..NumUnits

\* Relative paths under an output directory, in the order glob lists them.
FilePath(i) == "lib/m" \o ToString(i) \o ".js"
FileUniverse == {FilePath(i) : i \in 1..MaxFiles}

\* glob.sync('**', {cwd: directory, nodir: true, ...}): the files on disk
RECURSIVE globFrom(_, _)
globFrom(disk, i) ==
  IF i > MaxFiles THEN <<>>
  ELSE (IF FilePath(i) \in disk THEN <<FilePath(i)>> ELSE <<>>) \o globFrom(disk, i + 1)

globSync(disk) == globFrom(disk, 1)

\* file.match(excludeRegex): a pattern is the set of paths it matches
Matches(file) == file \in excludeRegex.matches

\* files.splice(index, 1), index counted from 0
Splice(list, index) ==
  SubSeq(list, 1, index) \o SubSeq(list, index + 2, Len(list))

UnlinkSkipped(disk, file) == disk

\* if (fs.existsSync(pathFile)) fs.unlinkSync(pathFile)
Unlink(disk, file) == IF file \in disk THEN disk \ {file} ELSE disk

RECURSIVE filterLoopNoDecrement(_, _, _, _)
filterLoopNoDecrement(list, index, filesExcluded, disk) ==
  IF ~(index < Len(list))
  THEN [files |-> list, filesExcluded |-> filesExcluded, disk |-> disk]
  ELSE LET file == list[index + 1]
       IN IF Matches(file)
          THEN filterLoopNoDecrement(Splice(list, index), index + 1,
                                     filesExcluded + 1, Unlink(disk, file))
          ELSE filterLoopNoDecrement(list, index + 1, filesExcluded, disk)

\* lines 126-135: the loop from the given index on; index counts from 0
RECURSIVE filterLoop(_, _, _, _)
filterLoop(list, index, filesExcluded, disk) ==
  IF ~(index < Len(list))
  THEN [files |-> list, filesExcluded |-> filesExcluded, disk |-> disk]
  ELSE LET file == list[index + 1]
       IN IF Matches(file)
          THEN filterLoop(Splice(list, index), (index - 1) + 1,
                          filesExcluded + 1, Unlink(disk, file))
          ELSE filterLoop(list, index + 1, filesExcluded, disk)

IsEmptyNever(list) == FALSE

\* _.isEmpty(files)
IsEmpty(list) == Len(list) = 0

\* zip, lines 109-147: the list, the disk and whether 'No files found' is thrown
zipList(disk) ==
  LET listed == globSync(disk)
      kept == IF excludeRegex.defined
              THEN filterLoop(listed, 0, 0, disk)
              ELSE [files |-> listed, filesExcluded |-> 0, disk |-> disk]
  IN [files |-> kept.files, disk |-> kept.disk, threw |-> IsEmpty(kept.files)]

\* zip, lines 109-147, called on the output directory of unit 1: one
\* enumerate-and-filter pass over what the passes before it left on disk.
\* (The archive that a pass without error goes on to write lies in
\* webpackOutputPath, outside the directory.)
MaxPasses == 2

ZipListPass ==
  /\ Len(passes) < MaxPasses
  /\ LET r == zipList(dirFiles[1])
     IN /\ files' = [files EXCEPT ![1] = r.files]
        /\ dirFiles' = [dirFiles EXCEPT ![1] = r.disk]
        /\ passes' = Append(passes, [files |-> r.files, threw |-> r.threw,
                                     listed |-> Len(globSync(dirFiles[1]))])
  /\ UNCHANGED <<logVars, factoryVars, hostVars, distVars, fsVars, skipCompile,
                 numStats, entryFunctions, excludeRegex, unitPc, archive, stream,
                 closeListener, closeSeen, crashed, pmPc, mapIdx, initial>>

\* _.get(this.entryFunctions, index, {}), index counted from 1 here
entryFunctionAt(index) ==
  IF index \in 1..Len(entryFunctions) THEN entryFunctions[index]
  ELSE [funcName |-> Undefined]

\* getArtifactName(entryFunction)
getArtifactNameOfService(entryFunction) == serviceName \o ".zip"

getArtifactName(entryFunction) ==
  (IF entryFunction.funcName # Undefined THEN entryFunction.funcName
   ELSE serviceName) \o ".zip"

\* line 151: artifactFilePath of unit u
artifactFilePath(u) ==
  PathJoin(webpackOutputPath, getArtifactName(entryFunctionAt(u)))

SyncDone == pmPc \in {"awaiting", "resolved", "rejected"}

\* packageModules, lines 193-200
PackageModulesCall ==
  /\ pmPc = "idle"
  /\ ~crashed
  /\ pmPc' = IF skipCompile THEN "skipped" ELSE "mapping"
  /\ UNCHANGED <<logVars, factoryVars, hostVars, distVars, fsVars, skipCompile,
                 numStats, entryFunctions, excludeRegex, dirFiles, files, unitPc,
                 archive, stream, closeListener, closeSeen, crashed, mapIdx,
                 initial, passes>>

\* lines 201-207 with zip and the head of serverlessZip (lines 88-102):
\* the map callback of unit u up to its first suspension
ZipStart(u) ==
  /\ pmPc = "mapping"
  /\ ~crashed
  /\ u = mapIdx
  /\ u <= numStats
  /\ LET r == zipList(dirFiles[u])
         path == artifactFilePath(u)
     IN /\ files' = [files EXCEPT ![u] = r.files]
        /\ dirFiles' = [dirFiles EXCEPT ![u] = r.disk]
        /\ IF r.threw
           THEN /\ unitPc' = [unitPc EXCEPT ![u] = "nofiles"]
                /\ UNCHANGED <<fsVars, archive, stream>>
           ELSE /\ fsDirs' = fsDirs \cup {path.dir}
                /\ fsFiles' = (PathString(path) :> [entries |-> {}, complete |-> FALSE])
                                 @@ fsFiles
                /\ archive' = [archive EXCEPT ![u] = "queued"]
                /\ stream' = [stream EXCEPT ![u] = "open"]
                /\ unitPc' = [unitPc EXCEPT ![u] = "awaitFinalize"]
  /\ mapIdx' = mapIdx + 1
  /\ UNCHANGED <<logVars, factoryVars, hostVars, distVars, skipCompile, numStats,
                 entryFunctions, excludeRegex, closeListener, closeSeen, crashed,
                 pmPc, initial, passes>>

\* line 220: every callback has run to its first await
PackageModulesAwait ==
  /\ pmPc = "mapping"
  /\ ~crashed
  /\ mapIdx > numStats
  /\ pmPc' = "awaiting"
  /\ UNCHANGED <<logVars, factoryVars, hostVars, distVars, fsVars, skipCompile,
                 numStats, entryFunctions, excludeRegex, dirFiles, files, unitPc,
                 archive, stream, closeListener, closeSeen, crashed, mapIdx,
                 initial, passes>>

\* line 93: the archiver reads the directory from disk and pipes its
\* entries into the stream
ArchiveWrite(u) ==
  /\ SyncDone
  /\ ~crashed
  /\ archive[u] = "queued"
  /\ stream[u] = "open"
  /\ archive' = [archive EXCEPT ![u] = "written"]
  /\ fsFiles' = [fsFiles EXCEPT ![PathString(artifactFilePath(u))].entries =
                   @ \cup dirFiles[u]]
  /\ UNCHANGED <<logVars, factoryVars, hostVars, distVars, fsDirs, skipCompile,
                 numStats, entryFunctions, excludeRegex, dirFiles, files, unitPc,
                 stream, closeListener, closeSeen, crashed, pmPc, mapIdx, initial, passes>>

\* line 102: the archive has ended; the promise of finalize() resolves
ArchiveEnd(u) ==
  /\ SyncDone
  /\ ~crashed
  /\ archive[u] = "written"
  /\ stream[u] = "open"
  /\ archive' = [archive EXCEPT ![u] = "ended"]
  /\ UNCHANGED <<logVars, factoryVars, hostVars, distVars, fsVars, skipCompile,
                 numStats, entryFunctions, excludeRegex, dirFiles, files, unitPc,
                 stream, closeListener, closeSeen, crashed, pmPc, mapIdx, initial, passes>>

\* lines 94-96: an 'error' event of the archive; the listener throws inside
\* the emitter, which no promise of serverlessZip observes: the exception
\* is uncaught and either ends the process or is swallowed by a handler of
\* the host, leaving the await of finalize() pending
ArchiveError(u) ==
  /\ SyncDone
  /\ ~crashed
  /\ archive[u] \in {"queued", "written"}
  /\ archive' = [archive EXCEPT ![u] = "error"]
  /\ crashed' \in BOOLEAN
  /\ UNCHANGED <<logVars, factoryVars, hostVars, distVars, fsVars, skipCompile,
                 numStats, entryFunctions, excludeRegex, dirFiles, files, unitPc,
                 stream, closeListener, closeSeen, pmPc, mapIdx, initial, passes>>

\* line 90: an 'error' event of the write stream, which has no listener
StreamError(u) ==
  /\ SyncDone
  /\ ~crashed
  /\ stream[u] = "open"
  /\ archive[u] \in {"queued", "written"}
  /\ stream' = [stream EXCEPT ![u] = "error"]
  /\ crashed' \in BOOLEAN
  /\ UNCHANGED <<logVars, factoryVars, hostVars, distVars, fsVars, skipCompile,
                 numStats, entryFunctions, excludeRegex, dirFiles, files, unitPc,
                 archive, closeListener, closeSeen, pmPc, mapIdx, initial, passes>>

\* lines 102-103: serverlessZip resumes after finalize() and registers the
\* close listener
RegisterClose(u) ==
  /\ SyncDone
  /\ ~crashed
  /\ unitPc[u] = "awaitFinalize"
  /\ archive[u] = "ended"
  /\ closeListener' = [closeListener EXCEPT ![u] = TRUE]
  /\ unitPc' = [unitPc EXCEPT ![u] = "awaitClose"]
  /\ UNCHANGED <<logVars, factoryVars, hostVars, distVars, fsVars, skipCompile,
                 numStats, entryFunctions, excludeRegex, dirFiles, files,
                 archive, stream, closeSeen, crashed, pmPc, mapIdx, initial, passes>>

\* the piped stream has been ended and flushed: its 'close' event, which
\* runs the listeners registered at that moment
StreamClose(u) ==
  /\ SyncDone
  /\ ~crashed
  /\ stream[u] = "open"
  /\ archive[u] = "ended"
  /\ stream' = [stream EXCEPT ![u] = "closed"]
  /\ fsFiles' = [fsFiles EXCEPT ![PathString(artifactFilePath(u))].complete = TRUE]
  /\ closeSeen' = [closeSeen EXCEPT ![u] = closeListener[u]]
  /\ UNCHANGED <<logVars, factoryVars, hostVars, distVars, fsDirs, skipCompile,
                 numStats, entryFunctions, excludeRegex, dirFiles, files, unitPc,
                 archive, closeListener, crashed, pmPc, mapIdx, initial, passes>>

mayReturnWithoutClose(u) == TRUE

\* line 103: the await of the close promise lets serverlessZip go on
mayReturn(u) == closeSeen[u]

\* lines 104, 207-218: serverlessZip returns artifactFilePath, zip and the
\* map callback return it
UnitReturn(u) ==
  /\ SyncDone
  /\ ~crashed
  /\ unitPc[u] = "awaitClose"
  /\ mayReturn(u)
  /\ unitPc' = [unitPc EXCEPT ![u] = "returned"]
  /\ UNCHANGED <<logVars, factoryVars, hostVars, distVars, fsVars, skipCompile,
                 numStats, entryFunctions, excludeRegex, dirFiles, files,
                 archive, stream, closeListener, closeSeen, crashed, pmPc,
                 mapIdx, initial, passes>>

\* lines 220-221: Promise.all settles: rejected with the first rejection,
\* resolved when every callback has returned
PackageModulesSettleAny ==
  /\ pmPc = "awaiting"
  /\ ~crashed
  /\ \/ /\ \E u \in 1..numStats : unitPc[u] = "nofiles"
        /\ pmPc' = "rejected"
     \/ /\ \E u \in 1..numStats : unitPc[u] = "returned"
        /\ pmPc' = "resolved"
  /\ UNCHANGED <<logVars, factoryVars, hostVars, distVars, fsVars, skipCompile,
                 numStats, entryFunctions, excludeRegex, dirFiles, files, unitPc,
                 archive, stream, closeListener, closeSeen, crashed, mapIdx,
                 initial, passes>>

PackageModulesSettle ==
  /\ pmPc = "awaiting"
  /\ ~crashed
  /\ \/ /\ \E u \in 1..numStats : unitPc[u] = "nofiles"
        /\ pmPc' = "rejected"
     \/ /\ \A u \in 1..numStats : unitPc[u] = "returned"
        /\ pmPc' = "resolved"
  /\ UNCHANGED <<logVars, factoryVars, hostVars, distVars, fsVars, skipCompile,
                 numStats, entryFunctions, excludeRegex, dirFiles, files, unitPc,
                 archive, stream, closeListener, closeSeen, crashed, mapIdx,
                 initial, passes>>

(***************************************************************************)
(* Initial states and specifications.                                      *)
(***************************************************************************)
InitLog ==
  /\ hasLog \in BOOLEAN
  /\ errorLog = <<>>
  /\ cliLog = <<>>

InitFactory ==
  /\ packagerId = <<>>
  /\ getOutcome = NoOutcome

\* A function record as the service configuration declares it: without any
\* packaging settings, or with settings left by the user or an earlier run.
FuncRecords(name) ==
  {[handler |-> "src/" \o name \o ".handler", artifact |-> Undefined, package |-> <<>>],
   [handler |-> "src/" \o name \o ".handler", artifact |-> "prior.zip",
    package |-> [artifact |-> "prior.zip", include |-> "lib/**",
                 disable |-> "false"]]}

HostVersions ==
  {Ver(0, 60, 0, FALSE), Ver(1, 17, 4, FALSE), Ver(1, 18, 0, TRUE),
   Ver(1, 18, 0, FALSE), Ver(2, 5, 1, FALSE)}

\* The build-stage artifacts a packaging run may have left.
BuildArtifacts ==
  {PathString(getArtifactLocations(n).webpackArtifact) : n \in AllFunctions \cup {"svc"}}

InitHost ==
  /\ individually \in BOOLEAN
  /\ provider \in {"aws", "google"}
  /\ serviceName \in {"svc", FuncName(1)}
  /\ optFunction \in {Undefined} \cup AllFunctions
  /\ version \in HostVersions

InitDist ==
  /\ funcs \in [AllFunctions -> UNION {FuncRecords(n) : n \in AllFunctions}]
  /\ \A n \in AllFunctions : funcs[n] \in FuncRecords(n)
  /\ serviceArtifact \in {Undefined, "prior-service.zip"}
  /\ functionNames = <<>>
  /\ distPc = "idle"
  /\ distIdx = 1
  /\ atEntry = [funcs |-> funcs, serviceArtifact |-> serviceArtifact]
  /\ \E present \in SUBSET BuildArtifacts :
        fsFiles = [p \in present |-> [entries |-> {"handler.js"}, complete |-> TRUE]]
  /\ fsDirs = {webpackOutputPath}

\* The factory alone: the host and the distributor stay as constructed.
ParkedHost ==
  /\ individually = FALSE
  /\ provider = "aws"
  /\ serviceName = "svc"
  /\ optFunction = Undefined
  /\ version = ArtifactPathVersion

ParkedDist ==
  /\ funcs = [n \in AllFunctions |->
               [handler |-> "src/" \o n \o ".handler", artifact |-> Undefined,
                package |-> <<>>]]
  /\ serviceArtifact = Undefined
  /\ functionNames = <<>>
  /\ distPc = "idle"
  /\ distIdx = 1
  /\ atEntry = [funcs |-> funcs, serviceArtifact |-> serviceArtifact]
  /\ fsFiles = <<>>
  /\ fsDirs = {}

\* The pipeline before packageModules is called.
ParkedPkg ==
  /\ skipCompile = FALSE
  /\ numStats = 0
  /\ entryFunctions = <<>>
  /\ excludeRegex = [defined |-> FALSE, matches |-> {}]
  /\ dirFiles = [u \in Units |-> {}]
  /\ files = [u \in Units |-> <<>>]
  /\ unitPc = [u \in Units |-> "waiting"]
  /\ archive = [u \in Units |-> "none"]
  /\ stream = [u \in Units |-> "none"]
  /\ closeListener = [u \in Units |-> FALSE]
  /\ closeSeen = [u \in Units |-> FALSE]
  /\ crashed = FALSE
  /\ pmPc = "idle"
  /\ mapIdx = 1
  /\ initial = [dirFiles |-> dirFiles, fsFiles |-> fsFiles, fsDirs |-> fsDirs]
  /\ passes = <<>>

\* A run with one compile result (Unified mode, or one selected function)
\* over every directory content and every exclusion pattern.
InitZip ==
  /\ skipCompile \in BOOLEAN
  /\ numStats = 1
  /\ entryFunctions \in {<<>>, <<[funcName |-> Undefined]>>,
                          <<[funcName |-> FuncName(1)]>>}
  /\ excludeRegex \in {[defined |-> FALSE, matches |-> {}]}
        \cup {[defined |-> TRUE, matches |-> m] : m \in SUBSET FileUniverse}
  /\ dirFiles \in [Units -> SUBSET FileUniverse]
  /\ \A u \in Units : u > numStats => dirFiles[u] = {}
  /\ files = [u \in Units |-> <<>>]
  /\ unitPc = [u \in Units |-> "waiting"]
  /\ archive = [u \in Units |-> "none"]
  /\ stream = [u \in Units |-> "none"]
  /\ closeListener = [u \in Units |-> FALSE]
  /\ closeSeen = [u \in Units |-> FALSE]
  /\ crashed = FALSE
  /\ pmPc = "idle"
  /\ mapIdx = 1
  /\ fsFiles = <<>>
  /\ fsDirs \in {{}, {webpackOutputPath}}
  /\ initial = [dirFiles |-> dirFiles, fsFiles |-> fsFiles, fsDirs |-> fsDirs]
  /\ passes = <<>>

\* One output directory with every content, under every exclusion pattern.
InitFilter ==
  /\ skipCompile = FALSE
  /\ numStats = 1
  /\ entryFunctions = <<>>
  /\ excludeRegex \in {[defined |-> FALSE, matches |-> {}]}
        \cup {[defined |-> TRUE, matches |-> m] : m \in SUBSET FileUniverse}
  /\ dirFiles \in [Units -> SUBSET FileUniverse]
  /\ \A u \in Units : u > numStats => dirFiles[u] = {}
  /\ files = [u \in Units |-> <<>>]
  /\ unitPc = [u \in Units |-> "waiting"]
  /\ archive = [u \in Units |-> "none"]
  /\ stream = [u \in Units |-> "none"]
  /\ closeListener = [u \in Units |-> FALSE]
  /\ closeSeen = [u \in Units |-> FALSE]
  /\ crashed = FALSE
  /\ pmPc = "idle"
  /\ mapIdx = 1
  /\ fsFiles = <<>>
  /\ fsDirs = {webpackOutputPath}
  /\ initial = [dirFiles |-> dirFiles, fsFiles |-> fsFiles, fsDirs |-> fsDirs]
  /\ passes = <<>>

\* A run over up to NumUnits compile results.  this.entryFunctions is any
\* list no longer than the compile results whose entries carry the name of
\* their function or none (an entry that is not bound to a function); the
\* output directory of a unit holds one file or none; no exclusion pattern.
InitPackage ==
  /\ skipCompile = FALSE
  /\ numStats \in 1..NumUnits
  /\ \E k \in 0..numStats :
        /\ entryFunctions \in [1..k -> {[funcName |-> n] :
                                         n \in {Undefined} \cup {FuncName(i) : i \in Units}}]
        /\ \A i \in 1..k : entryFunctions[i].funcName \in {Undefined, FuncName(i)}
  /\ excludeRegex = [defined |-> FALSE, matches |-> {}]
  /\ dirFiles \in [Units -> SUBSET {FilePath(1)}]
  /\ \A u \in Units : u > numStats => dirFiles[u] = {}
  /\ files = [u \in Units |-> <<>>]
  /\ unitPc = [u \in Units |-> "waiting"]
  /\ archive = [u \in Units |-> "none"]
  /\ stream = [u \in Units |-> "none"]
  /\ closeListener = [u \in Units |-> FALSE]
  /\ closeSeen = [u \in Units |-> FALSE]
  /\ crashed = FALSE
  /\ pmPc = "idle"
  /\ mapIdx = 1
  /\ fsFiles = <<>>
  /\ fsDirs = {webpackOutputPath}
  /\ initial = [dirFiles |-> dirFiles, fsFiles |-> fsFiles, fsDirs |-> fsDirs]
  /\ passes = <<>>

\* The compile results of a full run as the compile stage hands them to
\* packageModules: one per processed function, each with the entry of its
\* function, in Individual mode; one for the whole service, with no entry
\* function, in Unified mode.
compiledEntryFunctions ==
  IF individually
  THEN [i \in 1..Len(selectedFunctionNames) |-> [funcName |-> selectedFunctionNames[i]]]
  ELSE <<>>

compiledStats == IF individually THEN Len(selectedFunctionNames) ELSE 1

\* A full run: packaging, then distribution, of one service configuration.
InitRun ==
  /\ individually \in BOOLEAN
  /\ provider \in {"aws", "google"}
  /\ serviceName \in {"svc", FuncName(1)}
  /\ optFunction \in {Undefined} \cup AllFunctions
  /\ version = ArtifactPathVersion
  /\ skipCompile = FALSE
  /\ numStats = compiledStats
  /\ numStats <= NumUnits
  /\ entryFunctions = compiledEntryFunctions
  /\ excludeRegex = [defined |-> FALSE, matches |-> {}]
  /\ dirFiles \in [Units -> SUBSET {FilePath(1)}]
  /\ \A u \in Units : u > numStats => dirFiles[u] = {}
  /\ files = [u \in Units |-> <<>>]
  /\ unitPc = [u \in Units |-> "waiting"]
  /\ archive = [u \in Units |-> "none"]
  /\ stream = [u \in Units |-> "none"]
  /\ closeListener = [u \in Units |-> FALSE]
  /\ closeSeen = [u \in Units |-> FALSE]
  /\ crashed = FALSE
  /\ pmPc = "idle"
  /\ mapIdx = 1
  /\ fsFiles = <<>>
  /\ fsDirs = {webpackOutputPath}
  /\ initial = [dirFiles |-> dirFiles, fsFiles |-> fsFiles, fsDirs |-> fsDirs]
  /\ passes = <<>>

\* The distributor is not run: its variables stay as constructed.
ParkedDistNoFs ==
  /\ funcs = [n \in AllFunctions |->
               [handler |-> "src/" \o n \o ".handler", artifact |-> Undefined,
                package |-> <<>>]]
  /\ serviceArtifact = Undefined
  /\ functionNames = <<>>
  /\ distPc = "idle"
  /\ distIdx = 1
  /\ atEntry = [funcs |-> funcs, serviceArtifact |-> serviceArtifact]

FactoryGet == \E id \in PackagerIds : Get(id)

NextFactory == FactoryGet

InitFactoryRun == InitLog /\ InitFactory /\ ParkedHost /\ ParkedDist /\ ParkedPkg

SpecFactory == InitFactoryRun /\ [][NextFactory]_vars

NextDistribute ==
  \/ CopyExistingStart
  \/ CopyExistingCopy
  \/ CopyExistingAssign
  \/ CopyExistingService

InitDistribute == InitLog /\ InitFactory /\ InitHost /\ InitDist /\ ParkedPkg

SpecDistribute == InitDistribute /\ [][NextDistribute]_vars

NextZip ==
  \/ PackageModulesCall
  \/ PackageModulesAwait
  \/ PackageModulesSettle
  \/ \E u \in Units :
       \/ ZipStart(u)
       \/ ArchiveWrite(u)
       \/ ArchiveEnd(u)
       \/ ArchiveError(u)
       \/ StreamError(u)
       \/ RegisterClose(u)
       \/ StreamClose(u)
       \/ UnitReturn(u)

InitZipRun ==
  /\ hasLog = TRUE
  /\ errorLog = <<>>
  /\ cliLog = <<>>
  /\ InitFactory
  /\ ParkedHost
  /\ ParkedDistNoFs
  /\ InitZip

SpecZip == InitZipRun /\ [][NextZip]_vars

InitPackageRun ==
  /\ hasLog = TRUE
  /\ errorLog = <<>>
  /\ cliLog = <<>>
  /\ InitFactory
  /\ ParkedHost
  /\ ParkedDistNoFs
  /\ InitPackage

\* packageModules over several compile results; the steps are those of NextZip
SpecPackage == InitPackageRun /\ [][NextZip]_vars

\* copyExistingArtifacts is called once packageModules has resolved.
Distribute ==
  /\ pmPc = "resolved"
  /\ ~crashed
  /\ NextDistribute

NextRun ==
  \/ NextZip
  \/ Distribute

InitRunAll ==
  /\ hasLog = TRUE
  /\ errorLog = <<>>
  /\ cliLog = <<>>
  /\ InitFactory
  /\ ParkedDistNoFs
  /\ InitRun

SpecRun == InitRunAll /\ [][NextRun]_vars

NextFilter == ZipListPass

InitFilterRun ==
  /\ hasLog = TRUE
  /\ errorLog = <<>>
  /\ cliLog = <<>>
  /\ InitFactory
  /\ ParkedHost
  /\ ParkedDistNoFs
  /\ InitFilter

SpecFilter == InitFilterRun /\ [][NextFilter]_vars

(***************************************************************************)
(* Claims about the packager factory (SpecFactory).                        *)
(***************************************************************************)
\* the string s occurs in the message m
Carries(m, s) ==
  \E i \in 1..(Len(m) - Len(s) + 1) : SubSeq(m, i, i + Len(s) - 1) = s

\* C3: get(packagerId) returns the registered, defined descriptor of every
\* registered identifier and, for every other string, throws an error whose
\* message carries that string; it never returns for an unregistered string.
C3_FactoryTotality ==
  getOutcome.kind # "none" =>
    IF packagerId \in {<<"npm">>, <<"yarn">>}
    THEN /\ getOutcome.kind = "return"
         /\ getOutcome.value = (IF packagerId = <<"npm">> THEN npm ELSE yarn)
    ELSE /\ getOutcome.kind = "throw"
         /\ Carries(getOutcome.message, packagerId)

(***************************************************************************)
(* Claims about the distributor (SpecDistribute).                          *)
(***************************************************************************)
\* The host versions of HostVersions that lie below 1.18.0.
VersionsBelow == {Ver(0, 60, 0, FALSE), Ver(1, 17, 4, FALSE), Ver(1, 18, 0, TRUE)}

\* The artifact binding of function f: the field the host reads.
Binding(f) ==
  IF version \in VersionsBelow THEN funcs[f].artifact
  ELSE IF "artifact" \in DOMAIN funcs[f].package THEN funcs[f].package.artifact
       ELSE Undefined

DeployPath(name) == ".serverless/" \o name \o ".zip"

Processed == {functionNames[i] : i \in 1..Len(functionNames)}

\* The functions the assignment pass has been through.
Assigned ==
  IF distPc = "assign" THEN {functionNames[i] : i \in 1..(distIdx - 1)}
  ELSE IF distPc \in {"service", "done"} THEN Processed ELSE {}

\* C1: after copyExistingArtifacts completes, in Unified mode every processed
\* function is bound to .serverless/<serviceName>.zip; in Individual mode
\* every processed function f is bound to .serverless/<f>.zip and distinct
\* functions are bound to different paths.
C1_DistributionPaths ==
  distPc = "done" =>
    /\ \A f \in Processed :
         Binding(f) = IF individually THEN DeployPath(f) ELSE DeployPath(serviceName)
    /\ individually =>
         \A f, g \in Processed : f # g => Binding(f) # Binding(g)

C1_Witness ==
  /\ distPc = "done"
  /\ individually
  /\ Cardinality(Processed) >= 2
  /\ serviceName \in Processed

\* C2 as stated: after distribution completes every known function of the
\* service has its binding, also in a run that copies only the -f function.
C2_EveryKnownFunctionBound ==
  distPc = "done" =>
    \A f \in AllFunctions :
      Binding(f) = IF individually THEN DeployPath(f) ELSE DeployPath(serviceName)

\* C2 amended: after distribution completes exactly the functions of
\* functionNames are bound by the run, all functions of the service without
\* the -f option and only the selected one with it; the record of every
\* other function is as it was before the call.
C2_ProcessedFunctionsBound ==
  distPc = "done" =>
    /\ Processed = IF optFunction = Undefined THEN AllFunctions ELSE {optFunction}
    /\ \A f \in Processed :
         Binding(f) = IF individually THEN DeployPath(f) ELSE DeployPath(serviceName)
    /\ \A f \in AllFunctions \ Processed : funcs[f] = atEntry.funcs[f]

C2_Witness ==
  /\ distPc = "done"
  /\ individually
  /\ optFunction # Undefined
  /\ \E f \in AllFunctions \ Processed : Binding(f) = Undefined

\* C6: the service-level binding is set if and only if the mode is Unified
\* and the provider is google; it then equals the deploy-stage path bound to
\* each processed function, whose bindings are all set; otherwise, and
\* until the call completes, the service-level binding is as it was.
C6_ServiceArtifact ==
  IF distPc = "done" /\ ~individually /\ provider = "google"
  THEN /\ serviceArtifact = DeployPath(serviceName)
       /\ \A f \in Processed : Binding(f) = serviceArtifact
  ELSE serviceArtifact = atEntry.serviceArtifact

C6_Witness ==
  /\ distPc = "done"
  /\ ~individually
  /\ provider = "google"
  /\ Cardinality(Processed) >= 2
  /\ serviceArtifact # atEntry.serviceArtifact

\* C7: for a host version below 1.18.0 setArtifactPath leaves a flat
\* func.artifact and package.disable = true; at or above 1.18.0 it leaves
\* func.package.artifact and writes no flat artifact; the recorded path is
\* the artifactPath argument in both shapes.
C7_AssignmentShape ==
  \A f \in Assigned :
    LET artifactPath == IF individually THEN DeployPath(f) ELSE DeployPath(serviceName)
    IN IF version \in VersionsBelow
       THEN /\ funcs[f].artifact = artifactPath
            /\ "disable" \in DOMAIN funcs[f].package
            /\ funcs[f].package.disable = "true"
       ELSE /\ funcs[f].package = [artifact |-> artifactPath]
            /\ funcs[f].artifact = atEntry.funcs[f].artifact

C7_Witness ==
  /\ version = Ver(1, 17, 4, FALSE)
  /\ \E f \in Assigned :
       /\ atEntry.funcs[f].artifact = "prior.zip"
       /\ funcs[f].artifact = DeployPath(f)
       /\ funcs[f].package.disable = "true"

\* The identities one call of copyExistingArtifacts copies.
CopyIdentities == IF individually THEN Processed ELSE {serviceName}

BuildPath(name) == ".webpack/" \o name \o ".zip"

\* The copy of identity id is in place: the deploy-stage file exists with
\* the content of the build-stage artifact.
Copied(id) ==
  /\ BuildPath(id) \in DOMAIN fsFiles
  /\ DeployPath(id) \in DOMAIN fsFiles
  /\ fsFiles[DeployPath(id)] = fsFiles[BuildPath(id)]

BindingsUntouched ==
  /\ funcs = atEntry.funcs
  /\ serviceArtifact = atEntry.serviceArtifact

\* C16: in copyExistingArtifacts the assignment pass runs after the copy
\* pass: whenever the binding of any function has been written, or the
\* assignment pass has been through any function, the copy of every
\* identity of the run is complete.
C16_AssignAfterCopy ==
  (Assigned # {} \/ \E f \in AllFunctions : funcs[f] # atEntry.funcs[f]) =>
    /\ distPc \in {"assign", "service", "done"}
    /\ \A id \in CopyIdentities : Copied(id)

C16_Witness ==
  /\ distPc = "assign"
  /\ distIdx = 2
  /\ individually
  /\ Cardinality(CopyIdentities) >= 2
  /\ funcs[functionNames[1]] # atEntry.funcs[functionNames[1]]
  /\ funcs[functionNames[2]] = atEntry.funcs[functionNames[2]]

\* C17: a copy failure is fatal and never skipped: the call fails exactly on
\* an identity whose build-stage artifact is missing, it never gets past the
\* copy pass with an identity uncopied, and when it has failed no function
\* binding and no service-level binding has been modified.
C17_CopyFailureFatal ==
  /\ distPc = "failed" =>
       /\ BindingsUntouched
       /\ \E id \in CopyIdentities : BuildPath(id) \notin DOMAIN fsFiles
  /\ distPc \in {"assign", "service", "done"} =>
       \A id \in CopyIdentities : Copied(id)
  /\ distPc \in {"idle", "copy"} => BindingsUntouched

C17_Witness ==
  /\ distPc = "failed"
  /\ individually
  /\ distIdx = 2
  /\ Copied(functionNames[1])
  /\ BuildPath(functionNames[2]) \notin DOMAIN fsFiles
  /\ atEntry.funcs[functionNames[1]].artifact = "prior.zip"

\* C19: setArtifactPath changes no field of a function record other than
\* artifact and package; below 1.18.0 every field already present in the
\* package settings is preserved and only disable is added or overwritten;
\* at or above 1.18.0 the package settings hold the artifact field only.
C19_SetArtifactPathFrame ==
  \A f \in Assigned :
    LET old == atEntry.funcs[f]
        new == funcs[f]
    IN /\ DOMAIN new = DOMAIN old
       /\ new.handler = old.handler
       /\ IF version \in VersionsBelow
          THEN /\ DOMAIN new.package = DOMAIN old.package \cup {"disable"}
               /\ \A k \in DOMAIN old.package \ {"disable"} :
                    new.package[k] = old.package[k]
          ELSE DOMAIN new.package = {"artifact"}

C19_Witness ==
  /\ version = Ver(1, 18, 0, TRUE)
  /\ \E f \in Assigned :
       /\ atEntry.funcs[f].package = [artifact |-> "prior.zip", include |-> "lib/**",
                                      disable |-> "false"]
       /\ funcs[f].package = [artifact |-> "prior.zip", include |-> "lib/**",
                              disable |-> "true"]

(***************************************************************************)
(* Claims about the archive pipeline (SpecZip).                            *)
(***************************************************************************)
Started(u) == u \in 1..numStats /\ unitPc[u] # "waiting"

ArchivePathOf(u) == PathString(artifactFilePath(u))

\* The enumerated paths of unit u that the exclusion pattern does not match.
Kept(u) ==
  IF excludeRegex.defined THEN initial.dirFiles[u] \ excludeRegex.matches
  ELSE initial.dirFiles[u]

ListedPaths(u) == {files[u][i] : i \in 1..Len(files[u])}

\* position of a path in the enumeration order
PathOrder(file) == CHOOSE i \in 1..MaxFiles : FilePath(i) = file

\* C4: whenever an error occurred while reading a source file or writing the
\* archive stream, the build has failed towards its caller and no file is
\* left at the build-stage archive path, once nothing more can happen.
C4_AllOrNothing ==
  \A u \in Units :
    ((archive[u] = "error" \/ stream[u] = "error") /\ ~ENABLED NextZip) =>
      /\ unitPc[u] = "rejected"
      /\ ArchivePathOf(u) \notin DOMAIN fsFiles

\* C5: serverlessZip returns the archive path only after the close event of
\* the output stream: a unit that has returned has a closed stream, whose
\* close event ran the registered listener, and a completely written file.
C5_CloseBeforeReturn ==
  \A u \in Units :
    unitPc[u] = "returned" =>
      /\ stream[u] = "closed"
      /\ closeListener[u] /\ closeSeen[u]
      /\ fsFiles[ArchivePathOf(u)].complete

C5_Witness ==
  \E u \in Units : unitPc[u] = "returned" /\ pmPc = "resolved"

\* C8: when every enumerated file of a unit matches the exclusion pattern, or
\* the directory has no files, zip fails with 'No files found' and creates no
\* archive file, no archive parent directory and no stream.
C8_EmptySetRejection ==
  \A u \in Units :
    (Started(u) /\ Kept(u) = {}) =>
      /\ unitPc[u] = "nofiles"
      /\ archive[u] = "none" /\ stream[u] = "none"
      /\ fsFiles = initial.fsFiles
      /\ fsDirs = initial.fsDirs

C8_Witness ==
  \E u \in Units :
    /\ unitPc[u] = "nofiles"
    /\ Cardinality(initial.dirFiles[u]) >= 2
    /\ webpackOutputPath \notin fsDirs
    /\ pmPc = "rejected"

\* C9: after the filter loop the FileSet holds exactly the enumerated paths
\* that do not match the pattern, once each and in their original order;
\* every matching path is deleted from disk and no other file is.
C9_FilterCorrect ==
  \A u \in Units :
    Started(u) =>
      /\ ListedPaths(u) = Kept(u)
      /\ \A i, j \in 1..Len(files[u]) :
           i < j => PathOrder(files[u][i]) < PathOrder(files[u][j])
      /\ dirFiles[u] = Kept(u)

C9_Witness ==
  \E u \in Units :
    /\ Started(u)
    /\ initial.dirFiles[u] = FileUniverse
    /\ excludeRegex.defined
    /\ excludeRegex.matches = FileUniverse \ {FilePath(1)}
    /\ files[u] = <<FilePath(1)>>
    /\ dirFiles[u] = {FilePath(1)}

BuildStep(u) ==
  \/ ArchiveWrite(u)
  \/ ArchiveEnd(u)
  \/ RegisterClose(u)
  \/ StreamClose(u)
  \/ UnitReturn(u)

Pending(u) == u \in 1..numStats /\ unitPc[u] \in {"awaitFinalize", "awaitClose"}

\* C15: every archive build that has started eventually returns its path or
\* fails to its caller: once the event loop runs, a build that is still
\* pending always has a step towards its settling ahead of it, whatever
\* the order of finalize, close and listener registration and whatever
\* 'error' event has occurred.
C15_BuildSettles ==
  \A u \in Units : (SyncDone /\ Pending(u)) => ENABLED BuildStep(u)

(***************************************************************************)
(* Claims about packageModules over several units (SpecPackage).           *)
(***************************************************************************)
Failed == \E u \in 1..numStats : unitPc[u] = "nofiles"

\* C12: when a unit has failed with 'No files found' the run is aborted:
\* from then on no unit starts, and no enumeration, file deletion or
\* archive writing of any unit takes place.
C12_AbortOnNoFiles ==
  [][Failed =>
       /\ \A v \in Units : unitPc[v] = "waiting" => unitPc'[v] = "waiting"
       /\ UNCHANGED <<files, dirFiles, fsFiles, fsDirs>>]_vars

\* C13: single writer per target path: at no time do two units have an open
\* write stream on the same build-stage archive path.
C13_SingleWriter ==
  \A u, v \in 1..numStats :
    (u # v /\ stream[u] = "open" /\ stream[v] = "open") =>
      ArchivePathOf(u) # ArchivePathOf(v)

(***************************************************************************)
(* Claims about a full run, packaging then distribution (SpecRun).         *)
(***************************************************************************)
DeployPaths == {DeployPath(n) : n \in AllFunctions \cup {serviceName}}

\* C14: packageModules resolves only after the write stream of every unit
\* has closed, so a distributor started after it has resolved runs with no
\* archive still being written and every artifact it copies is complete.
C14_ResolveAfterClose ==
  /\ pmPc = "resolved" =>
       \A u \in 1..numStats :
         /\ unitPc[u] = "returned"
         /\ stream[u] = "closed"
         /\ ArchivePathOf(u) \in DOMAIN fsFiles
         /\ fsFiles[ArchivePathOf(u)].complete
  /\ distPc # "idle" => \A u \in 1..numStats : stream[u] = "closed"
  /\ \A p \in DeployPaths \cap DOMAIN fsFiles : fsFiles[p].complete

C14_Witness ==
  /\ distPc = "done"
  /\ individually
  /\ numStats >= 2
  /\ \A u \in 1..numStats : dirFiles[u] # {}
  /\ \A id \in CopyIdentities :
       /\ Copied(id)
       /\ fsFiles[DeployPath(id)].entries # {}

\* The archive identities packageModules writes, and those the distributor
\* copies, in one run.
WrittenPaths == {ArchivePathOf(u) : u \in 1..numStats}

NeededPaths ==
  IF individually
  THEN {BuildPath(selectedFunctionNames[i]) : i \in 1..Len(selectedFunctionNames)}
  ELSE {BuildPath(serviceName)}

C11_FilterIdempotent ==
  \A i \in 1..(Len(passes) - 1) :
    /\ passes[i + 1].files = passes[i].files
    /\ passes[i + 1].threw = passes[i].threw
    /\ passes[i + 1].listed = Len(passes[i].files)

C11_Witness ==
  /\ Len(passes) >= 2
  /\ passes[1].listed = MaxFiles
  /\ Len(passes[1].files) = 1
  /\ passes[2].files = passes[1].files
  /\ ~passes[2].threw

=============================================================================
